---- MODULE Spec2Model ----
(***************************************************************************)
(* Model of slither/printers/functions/authorization.py:                   *)
(* PrinterWrittenVariablesAndAuthorization.get_msg_sender_checks and the   *)
(* per-contract / per-function loop of output().                           *)
(*                                                                         *)
(* The program model (contracts, functions, call edges, modifiers, nodes,  *)
(* written variables) is the printer's input.  It is drawn in Init and     *)
(* never changed.  The pretty tables, the txt buffer and the CSV/Markdown  *)
(* files are renderings of export_data and are not modelled.               *)
(***************************************************************************)
EXTENDS Naturals, Sequences, FiniteSets, TLC

VARIABLES
    contracts,                \* self.contracts
    internal_calls,           \* f |-> f.internal_calls  (call IRs, in order)
    modifiers,                \* f |-> f.modifiers
    nodes,                    \* f |-> f.nodes
    written,                  \* f |-> f.all_state_variables_written()
    pc,                       \* position inside output()
    ci,                       \* index of `contract` in self.contracts
    fi,                       \* index of `function` in contract.functions
    state_vars_data,          \* output(): state_vars_data
    functions_data,           \* output(): functions_data
    export_data,              \* output(): export_data
    function,                 \* output(): the loop variable (0 before the first)
    scanned_functions,        \* get_msg_sender_checks: all_functions of the last call
    state_variables_written,  \* output(): state_variables_written of the last row
    msg_sender_condition,     \* output(): msg_sender_condition of the last row
    row_data                  \* output(): row_data, the last row built

program == <<contracts, internal_calls, modifiers, nodes, written>>
locals  == <<function, scanned_functions, state_variables_written,
             msg_sender_condition, row_data>>
vars    == <<contracts, internal_calls, modifiers, nodes, written, pc, ci, fi,
             state_vars_data, functions_data, export_data, function,
             scanned_functions, state_variables_written, msg_sender_condition,
             row_data>>

(***************************************************************************)
(* Bounds.                                                                 *)
(***************************************************************************)
NumFunctions == 3     \* Function objects of the program model
MaxSize == 2          \* items of a program: call sites, modifiers and nodes;
                      \* or call sites and modifiers over given bodies; or
                      \* written variables

(***************************************************************************)
(* Objects of the program model.                                           *)
(***************************************************************************)
\* Function objects.  Entity 0 is an object that is not a Function (a Contract
\* listed among the modifiers for a base constructor call, a Variable called
\* through a function pointer).
Functions == 1 .. NumFunctions
NotAFunction == 0
Entities == {NotAFunction} \cup Functions

\* isinstance(x, Function)
IsFunction(x) == x \in Functions

\* function.name; 1, 2, 3 are Vault's withdraw, _check and donate, the other
\* objects are modifiers or overloads.
FunctionName(f) ==
    CASE f = 1 -> "withdraw"
      [] f = 2 -> "_check"
      [] f = 3 -> "donate"
      [] f = 4 -> "onlyOwner"
      [] OTHER -> "withdraw"

\* Optional values: <<>> is None, <<v>> is v.
None == <<>>
Some(v) == <<v>>

\* Python truthiness of an optional string (None and "" are falsy).
Truthy(o) == o # None /\ o[1] # ""

\* Every text the model sorts, in ascending code-point order (the order of
\* Python's str comparison).
TextOrder == << "", "admin", "admin == msg.sender", "balance",
                "block.timestamp > deadline", "msg.sender == owner", "owner",
                "owner = msg.sender" >>

Rank(s) == CHOOSE i \in 1 .. Len(TextOrder) : TextOrder[i] = s

\* a <= b on str
StrLeq(a, b) == Rank(a) <= Rank(b)

(***************************************************************************)
(* Python built-ins used by output().                                      *)
(***************************************************************************)
\* sorted(l) with the sort left out: the list as it came.
sorted_unsorted(l) == l

RECURSIVE insort(_, _)
insort(x, s) ==
    IF s = <<>> THEN <<x>>
    ELSE IF StrLeq(s[1], x) THEN <<s[1]>> \o insort(x, Tail(s))
    ELSE <<x>> \o s

RECURSIVE sorted_from(_, _)
sorted_from(l, acc) ==
    IF l = <<>> THEN acc ELSE sorted_from(Tail(l), insort(l[1], acc))

\* sorted(l) on a list of str: ascending, stable, every element kept.
sorted(l) == sorted_from(l, <<>>)

\* repr(s) of a str holding no quote, backslash or control character.
repr(s) == "'" \o s \o "'"

RECURSIVE join_repr(_)
join_repr(l) ==
    IF l = <<>> THEN ""
    ELSE IF Len(l) = 1 THEN repr(l[1])
    ELSE repr(l[1]) \o ", " \o join_repr(Tail(l))

\* str(l) with an empty list rendered as nothing.
str_list_blank_when_empty(l) == IF l = <<>> THEN "" ELSE "[" \o join_repr(l) \o "]"

\* str(l) of a list of str: "[]", "['a']", "['a', 'b']".
str_list(l) == "[" \o join_repr(l) \o "]"

\* [item for sublist in ll for item in sublist]
RECURSIVE flatten(_)
flatten(ll) == IF ll = <<>> THEN <<>> ELSE ll[1] \o flatten(Tail(ll))

\* [F(x) for x in s]
Map(F(_), s) == [i \in 1 .. Len(s) |-> F(s[i])]

ToSet(s) == {s[i] : i \in 1 .. Len(s)}

(***************************************************************************)
(* The program model's queries.                                            *)
(***************************************************************************)
\* str(n.expression): a binary operation renders as "left op right".
str_expression(e) == e.left \o " " \o e.op \o " " \o e.right

\* The Function targets of a list of call IRs.
function_targets(irs) ==
    Map(LAMBDA ir : ir.function, SelectSeq(irs, LAMBDA ir : IsFunction(ir.function)))

\* Worklist traversal of the internal-call edges with a visited set: the call
\* IRs of every function explored, in exploration order.
RECURSIVE explore_functions(_, _, _, _)
explore_functions(pm, to_explore, explored, values) ==
    IF to_explore = <<>> THEN values
    ELSE LET f == Head(to_explore)
             rest == Tail(to_explore)
         IN  IF f \in explored
             THEN explore_functions(pm, rest, explored, values)
             ELSE explore_functions(
                      pm,
                      rest \o SelectSeq(function_targets(pm.internal_calls[f]),
                                        LAMBDA c : c \notin explored \cup {f}
                                                   /\ c \notin ToSet(rest)),
                      explored \cup {f},
                      values \o pm.internal_calls[f])

\* function.all_internal_calls(): the call IRs of function and of every
\* function reached from it through internal calls, directly or indirectly.
all_internal_calls(pm, f) ==
    explore_functions(pm,
                      SelectSeq(function_targets(pm.internal_calls[f]),
                                LAMBDA c : c # f),
                      {f},
                      pm.internal_calls[f])

(***************************************************************************)
(* get_msg_sender_checks                                                   *)
(***************************************************************************)
\* all_functions without the function itself.
all_functions_without_self(pm, f) ==
    function_targets(all_internal_calls(pm, f))
        \o SelectSeq(pm.modifiers[f], IsFunction)

\* all_functions without the internally called functions.
all_functions_without_calls(pm, f) ==
    <<f>> \o SelectSeq(pm.modifiers[f], IsFunction)

\* all_functions: the called functions, the function, its modifiers.
all_functions(pm, f) ==
    function_targets(all_internal_calls(pm, f))
        \o <<f>>
        \o SelectSeq(pm.modifiers[f], IsFunction)

\* all_nodes
all_nodes(pm, f) == flatten(Map(LAMBDA g : pm.nodes[g], all_functions(pm, f)))

\* The test of all_conditional_nodes with the require/assert half left out.
is_conditional_if_only(n) == n.contains_if

\* n.contains_if() or n.contains_require_or_assert()
is_conditional(n) == n.contains_if \/ n.contains_require_or_assert

\* "msg.sender" in [v.name for v in n.solidity_variables_read]
reads_msg_sender(n) ==
    \E i \in 1 .. Len(n.solidity_variables_read) :
        n.solidity_variables_read[i].name = "msg.sender"

\* all_conditional_nodes
all_conditional_nodes(pm, f) == SelectSeq(all_nodes(pm, f), is_conditional)

\* all_conditional_nodes_on_msg_sender
all_conditional_nodes_on_msg_sender(pm, f) ==
    Map(LAMBDA n : str_expression(n.expression),
        SelectSeq(all_conditional_nodes(pm, f), reads_msg_sender))

\* get_msg_sender_checks giving up with no guard when a call target or a
\* modifier is not a Function.
get_msg_sender_checks_giving_up(pm, f) ==
    IF \/ \E i \in 1 .. Len(all_internal_calls(pm, f)) :
              ~IsFunction(all_internal_calls(pm, f)[i].function)
       \/ \E i \in 1 .. Len(pm.modifiers[f]) : ~IsFunction(pm.modifiers[f][i])
    THEN <<>>
    ELSE all_conditional_nodes_on_msg_sender(pm, f)

get_msg_sender_checks(pm, f) == all_conditional_nodes_on_msg_sender(pm, f)

(***************************************************************************)
(* The programs the printer is run on.                                     *)
(***************************************************************************)
SolidityVariable(name) == [name |-> name]

\* The control-flow nodes a function body is built from.
NodeKinds == <<
    \* require(msg.sender == owner)
    [contains_if |-> FALSE, contains_require_or_assert |-> TRUE,
     solidity_variables_read |-> <<SolidityVariable("msg.sender")>>,
     expression |-> [left |-> "msg.sender", op |-> "==", right |-> "owner"]],
    \* if (admin == msg.sender)
    [contains_if |-> TRUE, contains_require_or_assert |-> FALSE,
     solidity_variables_read |->
         <<SolidityVariable("block.timestamp"), SolidityVariable("msg.sender")>>,
     expression |-> [left |-> "admin", op |-> "==", right |-> "msg.sender"]],
    \* if (block.timestamp > deadline)
    [contains_if |-> TRUE, contains_require_or_assert |-> FALSE,
     solidity_variables_read |-> <<SolidityVariable("block.timestamp")>>,
     expression |-> [left |-> "block.timestamp", op |-> ">", right |-> "deadline"]],
    \* owner = msg.sender
    [contains_if |-> FALSE, contains_require_or_assert |-> FALSE,
     solidity_variables_read |-> <<SolidityVariable("msg.sender")>>,
     expression |-> [left |-> "owner", op |-> "=", right |-> "msg.sender"]] >>

\* The state variable objects a function may write: two named ones, one that
\* shadows the first under the same name, one with an empty name, one with none.
Variables == <<
    [id |-> 1, name |-> Some("balance")],
    [id |-> 2, name |-> Some("admin")],
    [id |-> 3, name |-> Some("balance")],
    [id |-> 4, name |-> Some("")],
    [id |-> 5, name |-> None] >>

\* An attribute an object may lack: hasattr(o, a) and, when it has it, o.a.
Attr(value) == [has |-> TRUE, value |-> value]
NoAttr == [has |-> FALSE, value |-> None]

\* The value of an optional as a table cell: the str, or None.
Cell(o) == IF o = None THEN None ELSE o[1]

StateVariable(name, type, visibility, location) ==
    [name |-> name, type |-> type, visibility |-> visibility, location |-> location]

\* State variables with the visibility set, None and missing, and the location
\* None, set, empty and missing.
VaultStateVariables == <<
    StateVariable("owner", Some("address"), Attr(Some("public")), Attr(None)),
    StateVariable("balance", Some("uint256"), Attr(Some("internal")),
                  Attr(Some("default"))),
    StateVariable("cache", None, Attr(None), Attr(Some("transient"))),
    StateVariable("total", Some("uint256"), NoAttr, Attr(Some(""))),
    StateVariable("paused", Some("bool"), Attr(Some("")), NoAttr) >>

Contract(name, state_variables, functions) ==
    [name |-> name, state_variables |-> state_variables, functions |-> functions]

\* The Function objects after donate, in declaration order.
OtherFunctions == [i \in 1 .. NumFunctions - 3 |-> i + 3]

\* self.contracts: Vault declaring everything, or Ownable declaring _check and
\* Vault declaring the rest, donate first, and inheriting _check (an inherited
\* function is among the functions of both contracts).
ContractLayouts == {
    << Contract("Vault", VaultStateVariables, <<1, 2, 3>>),
       Contract("Bank", <<>>, OtherFunctions) >>,
    << Contract("Ownable", <<VaultStateVariables[1]>>, <<2>>),
       Contract("Vault", Tail(VaultStateVariables),
                <<3, 1, 2>> \o OtherFunctions) >> }

\* What a function is built from: a call site, an attached modifier, a node.
Items ==
    [kind : {"call", "modifier"}, owner : Functions, arg : Entities]
        \cup [kind : {"node"}, owner : Functions, arg : 1 .. Len(NodeKinds)]

\* The call sites and attached modifiers alone.
EdgeItems == [kind : {"call", "modifier"}, owner : Functions, arg : Entities]

WriteItems == [owner : Functions, arg : 1 .. Len(Variables)]

BoundedSeq(S, n) == UNION {[1 .. k -> S] : k \in 0 .. n}

OfFunction(items, kind, f) ==
    SelectSeq(items, LAMBDA it : it.kind = kind /\ it.owner = f)

InternalCallsOf(items) ==
    [f \in Functions |->
        Map(LAMBDA it : [function |-> it.arg], OfFunction(items, "call", f))]

ModifiersOf(items) ==
    [f \in Functions |-> Map(LAMBDA it : it.arg, OfFunction(items, "modifier", f))]

NodesOf(items) ==
    [f \in Functions |->
        Map(LAMBDA it : NodeKinds[it.arg], OfFunction(items, "node", f))]

\* A program in which every function has a body: withdraw a deadline test,
\* _check the owner requirement, donate the admin test, any other function an
\* assignment and the owner requirement.
Bodies ==
    [f \in Functions |->
        CASE f = 1 -> <<NodeKinds[3]>>
          [] f = 2 -> <<NodeKinds[1]>>
          [] f = 3 -> <<NodeKinds[2]>>
          [] OTHER -> <<NodeKinds[4], NodeKinds[1]>>]

WrittenOf(witems) ==
    [f \in Functions |->
        Map(LAMBDA it : Variables[it.arg],
            SelectSeq(witems, LAMBDA it : it.owner = f))]

\* Vault: withdraw calls _check, which requires msg.sender == owner, and writes
\* balance; donate writes balance.
VaultItems == << [kind |-> "call", owner |-> 1, arg |-> 2],
                 [kind |-> "node", owner |-> 2, arg |-> 1] >>

VaultWriteItems == << [owner |-> 1, arg |-> 1], [owner |-> 3, arg |-> 1] >>

\* The program model as the queries see it.
PM == [internal_calls |-> internal_calls, modifiers |-> modifiers,
       nodes |-> nodes, written |-> written]

(***************************************************************************)
(* output()                                                                *)
(***************************************************************************)
Init ==
    /\ contracts \in ContractLayouts
    /\ \/ \E items \in BoundedSeq(Items, MaxSize) :
              /\ internal_calls = InternalCallsOf(items)
              /\ modifiers = ModifiersOf(items)
              /\ nodes = NodesOf(items)
              /\ written = WrittenOf(VaultWriteItems)
       \/ \E items \in BoundedSeq(EdgeItems, MaxSize) :
              /\ internal_calls = InternalCallsOf(items)
              /\ modifiers = ModifiersOf(items)
              /\ nodes = Bodies
              /\ written = WrittenOf(VaultWriteItems)
       \/ \E witems \in BoundedSeq(WriteItems, MaxSize) :
              \* all_state_variables_written() holds each object once
              /\ \A i, j \in 1 .. Len(witems) : witems[i] = witems[j] => i = j
              /\ internal_calls = InternalCallsOf(VaultItems)
              /\ modifiers = ModifiersOf(VaultItems)
              /\ nodes = NodesOf(VaultItems)
              /\ written = WrittenOf(witems)
    /\ pc = "contracts"
    /\ ci = 1
    /\ fi = 1
    /\ state_vars_data = <<>>
    /\ functions_data = <<>>
    /\ export_data = <<>>
    /\ function = 0
    /\ scanned_functions = <<>>
    /\ state_variables_written = <<>>
    /\ msg_sender_condition = <<>>
    /\ row_data = <<>>

\* The row of one state variable.
state_var_row(v) ==
    << v.name,
       IF v.type # None THEN v.type[1] ELSE "Unknown",
       IF v.visibility.has THEN Cell(v.visibility.value) ELSE "Unknown",
       IF v.location.has /\ Truthy(v.location.value)
           THEN v.location.value[1] ELSE "default" >>

\* for contract in self.contracts: the state variable rows, functions_data = [].
\* row_data is bound to each state variable's row in turn and keeps the last.
StartContract ==
    /\ pc = "contracts"
    /\ ci <= Len(contracts)
    /\ state_vars_data' = Map(state_var_row, contracts[ci].state_variables)
    /\ row_data' =
           IF contracts[ci].state_variables = <<>> THEN row_data
           ELSE state_var_row(contracts[ci].state_variables[
                                  Len(contracts[ci].state_variables)])
    /\ functions_data' = <<>>
    /\ fi' = 1
    /\ pc' = "functions"
    /\ UNCHANGED <<program, ci, export_data, function, scanned_functions,
                   state_variables_written, msg_sender_condition>>

\* [v.name for v in function.all_state_variables_written() if v.name]
written_names(pm, f) ==
    Map(LAMBDA v : v.name[1], SelectSeq(pm.written[f], LAMBDA v : Truthy(v.name)))

\* row_data
function_row(pm, f) ==
    << FunctionName(f),
       str_list(sorted(written_names(pm, f))),
       str_list(sorted(get_msg_sender_checks(pm, f))) >>

\* functions_data.append(row_data) dropping the rows already there.
add_row_dropping(data, row) == <<row>>

\* functions_data.append(row_data)
add_row(data, row) == Append(data, row)

\* for function in contract.functions: one row
FunctionRow ==
    /\ pc = "functions"
    /\ fi <= Len(contracts[ci].functions)
    /\ LET f == contracts[ci].functions[fi]
       IN  /\ function' = f
           /\ scanned_functions' = all_functions(PM, f)
           /\ state_variables_written' = written_names(PM, f)
           /\ msg_sender_condition' = get_msg_sender_checks(PM, f)
           /\ row_data' = function_row(PM, f)
           /\ functions_data' = add_row(functions_data, function_row(PM, f))
    /\ fi' = fi + 1
    /\ UNCHANGED <<program, pc, ci, state_vars_data, export_data>>

\* export_data.append((contract.name, state_vars_data, functions_data))
EndContract ==
    /\ pc = "functions"
    /\ fi > Len(contracts[ci].functions)
    /\ export_data' =
           Append(export_data, <<contracts[ci].name, state_vars_data, functions_data>>)
    /\ ci' = ci + 1
    /\ pc' = "contracts"
    /\ UNCHANGED <<program, fi, state_vars_data, functions_data, locals>>

\* After the last contract: the exports are written and the output returned.
Finish ==
    /\ pc = "contracts"
    /\ ci > Len(contracts)
    /\ pc' = "done"
    /\ UNCHANGED <<program, ci, fi, state_vars_data, functions_data, export_data,
                   locals>>

Next == StartContract \/ FunctionRow \/ EndContract \/ Finish

Spec == Init /\ [][Next]_vars

(***************************************************************************)
(* Vocabulary of the properties, stated on the program model itself.       *)
(***************************************************************************)
\* A row has just been added to functions_data: the locals describe it.
Emitted == pc = "functions" /\ fi > 1 /\ function = contracts[ci].functions[fi - 1]

\* g is the Function target of one of f's internal-call sites.
CallEdge(f, g) ==
    /\ IsFunction(g)
    /\ \E i \in 1 .. Len(internal_calls[f]) : internal_calls[f][i].function = g

RECURSIVE ReachClosure(_)
ReachClosure(S) ==
    LET T == S \cup {g \in Functions : \E h \in S : CallEdge(h, g)}
    IN  IF T = S THEN S ELSE ReachClosure(T)

\* The functions reached from f through one or more internal-call edges.
Reach(f) == ReachClosure({g \in Functions : CallEdge(f, g)})

\* The Function objects attached to f as modifiers.
ModifierFunctions(f) == {m \in ToSet(modifiers[f]) : IsFunction(m)}

\* closure(f) of the specification
Closure(f) == {f} \cup Reach(f) \cup ModifierFunctions(f)

\* The nodes of the functions of S that are conditional and read msg.sender.
GuardNodes(S) ==
    {n \in UNION {ToSet(nodes[g]) : g \in S} :
        /\ n.contains_if \/ n.contains_require_or_assert
        /\ \E v \in ToSet(n.solidity_variables_read) : v.name = "msg.sender"}

GuardTexts(S) ==
    {n.expression.left \o " " \o n.expression.op \o " " \o n.expression.right :
        n \in GuardNodes(S)}

\* The non-empty names of the variables the written-variables query returns.
WrittenNames(f) == {v.name[1] : v \in {w \in ToSet(written[f]) : Truthy(w.name)}}

NoDuplicates(s) == \A i, j \in 1 .. Len(s) : s[i] = s[j] => i = j

\* The ascending sequence holding each element of S once.
RECURSIVE SetToSortedSeq(_)
SetToSortedSeq(S) ==
    IF S = {} THEN <<>>
    ELSE LET m == CHOOSE x \in S : \A y \in S : StrLeq(x, y)
         IN  <<m>> \o SetToSortedSeq(S \ {m})

SwapAt(s, i) ==
    [k \in 1 .. Len(s) |-> IF k = i THEN s[i + 1] ELSE IF k = i + 1 THEN s[i] ELSE s[k]]

RemoveAt(s, i) == SubSeq(s, 1, i - 1) \o SubSeq(s, i + 1, Len(s))

Swaps(s) == {i \in 1 .. Len(s) : i < Len(s)}

\* The program models that differ from pm by the order of two neighbours in one
\* list: call sites, modifiers, nodes, written variables.
Permuted(pm) ==
    UNION {
        {[pm EXCEPT !.internal_calls[g] = SwapAt(@, i)] : i \in Swaps(pm.internal_calls[g])}
        \cup {[pm EXCEPT !.modifiers[g] = SwapAt(@, i)] : i \in Swaps(pm.modifiers[g])}
        \cup {[pm EXCEPT !.nodes[g] = SwapAt(@, i)] : i \in Swaps(pm.nodes[g])}
        \cup {[pm EXCEPT !.written[g] = SwapAt(@, i)] : i \in Swaps(pm.written[g])}
        : g \in Functions}

\* The program models that differ from pm by one entry that is not a Function
\* taken out of a call-site list or a modifier list.
WithoutOneUnresolved(pm) ==
    UNION {
        {[pm EXCEPT !.internal_calls[g] = RemoveAt(@, i)] :
            i \in {k \in 1 .. Len(pm.internal_calls[g]) :
                      ~IsFunction(pm.internal_calls[g][k].function)}}
        \cup {[pm EXCEPT !.modifiers[g] = RemoveAt(@, i)] :
            i \in {k \in 1 .. Len(pm.modifiers[g]) : ~IsFunction(pm.modifiers[g][k])}}
        : g \in Functions}

IsVault ==
    /\ internal_calls = InternalCallsOf(VaultItems)
    /\ modifiers = ModifiersOf(VaultItems)
    /\ nodes = NodesOf(VaultItems)
    /\ written = WrittenOf(VaultWriteItems)

(***************************************************************************)
(* Properties.                                                             *)
(***************************************************************************)

\* C1: the functions get_msg_sender_checks(F) scans are exactly F, the functions
\* reached from F through internal calls, and F's own modifiers; a function
\* called only by a modifier's body is not scanned; with no internal call and
\* no modifier the scan is F alone.
C1_ScanIsClosure ==
    Emitted =>
        /\ ToSet(scanned_functions) = Closure(function)
        /\ \A m \in ModifierFunctions(function) : \A h \in Functions :
               (CallEdge(m, h) /\ h \notin Closure(function))
                   => h \notin ToSet(scanned_functions)
        /\ (internal_calls[function] = <<>> /\ modifiers[function] = <<>>)
               => scanned_functions = <<function>>

\* C1 witness: F has a modifier whose body calls a function outside F's closure.
C1_Witness ==
    /\ Emitted
    /\ \E m \in ModifierFunctions(function) : \E h \in Functions :
           CallEdge(m, h) /\ h \notin Closure(function)

\* C2: when F is on a call cycle, calls itself or is its own modifier, the
\* functions scanned are F's closure with each function scanned exactly once.
C2_EachFunctionScannedOnce ==
    (Emitted /\ (function \in Reach(function)
                 \/ function \in ModifierFunctions(function)))
        => /\ ToSet(scanned_functions) = Closure(function)
           /\ NoDuplicates(scanned_functions)

\* C3: a text is among the guards returned for F exactly when a node of a
\* function of F's closure is conditional (if, require or assert), reads
\* msg.sender and renders as that text.
C3_GuardFilter ==
    Emitted => ToSet(msg_sender_condition) = GuardTexts(Closure(function))

\* C3 witness: guards were returned while the closure also holds a conditional
\* node that reads no msg.sender, or a node that reads it without a condition.
C3_Witness ==
    /\ Emitted
    /\ msg_sender_condition # <<>>
    /\ \E n \in UNION {ToSet(nodes[g]) : g \in Closure(function)} :
           n \notin GuardNodes(Closure(function))

\* C4: the guard sequence emitted for F holds every guard text once, in sorted
\* order.
C4_GuardsOnceAndSorted ==
    Emitted =>
        row_data[3] = str_list(SetToSortedSeq(GuardTexts(Closure(function))))

\* C5: the write sequence emitted for F is the sorted, duplicate-free sequence
\* of the non-empty names of the variables the written-variables query returns.
C5_WritesOnceAndSorted ==
    Emitted => row_data[2] = str_list(SetToSortedSeq(WrittenNames(function)))

\* C6: the row emitted for F is the row of every program model that differs
\* only by the order of call sites, modifiers, nodes or written variables, and
\* the row of every earlier computation for the same function.
C6_OrderIndependent ==
    Emitted =>
        /\ \A pm \in Permuted(PM) : function_row(pm, function) = row_data
        /\ \A k \in 1 .. Len(export_data) :
               \A i \in 1 .. Len(contracts[k].functions) :
                   contracts[k].functions[i] = function
                       => export_data[k][3][i] = row_data

\* The program models that differ from pm by two neighbouring call sites of f.
CallSwaps(pm, f) ==
    {[pm EXCEPT !.internal_calls[f] = SwapAt(@, i)] : i \in Swaps(pm.internal_calls[f])}

\* The program models that differ from pm by two neighbouring modifiers of f.
ModifierSwaps(pm, f) ==
    {[pm EXCEPT !.modifiers[f] = SwapAt(@, i)] : i \in Swaps(pm.modifiers[f])}

\* The program models that differ from pm by two neighbouring nodes of f.
NodeSwaps(pm, f) ==
    {[pm EXCEPT !.nodes[f] = SwapAt(@, i)] : i \in Swaps(pm.nodes[f])}

\* The program models that differ from pm by two neighbouring written variables.
WrittenSwaps(pm, f) ==
    {[pm EXCEPT !.written[f] = SwapAt(@, i)] : i \in Swaps(pm.written[f])}

\* C6 witness: swapping two call targets of F changes the list
\* get_msg_sender_checks returns for F, whose guards are not empty.
C6_Witness ==
    /\ Emitted
    /\ \E pm \in CallSwaps(PM, function) :
           get_msg_sender_checks(pm, function) # msg_sender_condition

\* The other cases of C6, each reached as well: a swap of two modifiers, of two
\* nodes, of two written variables that changes the list before sorting, and a
\* function whose row is computed a second time.
C6_ModifierSwapReached ==
    /\ Emitted
    /\ \E pm \in ModifierSwaps(PM, function) :
           get_msg_sender_checks(pm, function) # msg_sender_condition

C6_NodeSwapReached ==
    /\ Emitted
    /\ \E pm \in NodeSwaps(PM, function) :
           get_msg_sender_checks(pm, function) # msg_sender_condition

C6_WrittenSwapReached ==
    /\ Emitted
    /\ \E pm \in WrittenSwaps(PM, function) :
           written_names(pm, function) # state_variables_written

C6_RepetitionReached ==
    /\ Emitted
    /\ msg_sender_condition # <<>>
    /\ \E k \in 1 .. Len(export_data) :
           \E i \in 1 .. Len(contracts[k].functions) :
               contracts[k].functions[i] = function

\* C7: a call target or modifier that is not a Function is skipped: the guards
\* returned are those of the program model without that entry, and every
\* function of the closure is scanned.
C7_UnresolvedSkipped ==
    Emitted =>
        /\ \A pm \in WithoutOneUnresolved(PM) :
               get_msg_sender_checks(pm, function) = msg_sender_condition
        /\ Closure(function) \subseteq ToSet(scanned_functions)

\* C7 witness: F itself lists an entry that is not a Function and guards were
\* returned for it.
C7_Witness ==
    /\ Emitted
    /\ msg_sender_condition # <<>>
    /\ \/ \E i \in 1 .. Len(internal_calls[function]) :
              ~IsFunction(internal_calls[function][i].function)
       \/ \E i \in 1 .. Len(modifiers[function]) : ~IsFunction(modifiers[function][i])

\* C8: a function with no named written variable and no msg.sender guard in its
\* closure gets a row of three fields whose writes and guards are both "[]".
C8_EmptyRow ==
    (Emitted /\ WrittenNames(function) = {} /\ GuardNodes(Closure(function)) = {})
        => /\ row_data = <<FunctionName(function), "[]", "[]">>
           /\ functions_data # <<>>
           /\ functions_data[Len(functions_data)] = row_data

\* C8 witness: such a function, which nonetheless writes an unnamed variable or
\* has a conditional node.
C8_Witness ==
    /\ Emitted
    /\ WrittenNames(function) = {}
    /\ GuardNodes(Closure(function)) = {}
    /\ written[function] # <<>> \/ nodes[function] # <<>>

\* C9: the rows are one per function, in contract-then-function order: each
\* finished contract carries the rows of its functions in order, the contract
\* in progress the rows of the functions done so far, and at the end every
\* contract is there.
C9_RowsFollowEnumeration ==
    /\ Len(export_data) = ci - 1
    /\ \A k \in 1 .. Len(export_data) :
           /\ export_data[k][1] = contracts[k].name
           /\ export_data[k][3] =
                  Map(LAMBDA f : function_row(PM, f), contracts[k].functions)
    /\ pc = "functions" =>
           functions_data =
               Map(LAMBDA f : function_row(PM, f),
                   SubSeq(contracts[ci].functions, 1, fi - 1))
    /\ pc = "done" => Len(export_data) = Len(contracts)

\* C9 witness: the output is complete, with two contracts of one and of several
\* functions.
C9_Witness ==
    /\ pc = "done"
    /\ Len(export_data) = 2
    /\ Len(export_data[1][3]) = 1
    /\ Len(export_data[2][3]) >= 2

\* C10: in Vault the row of withdraw is writes ['balance'] and the guard of
\* _check, the row of donate is writes ['balance'] and no guard; and a guard
\* in an internally called function is in the row of every caller reaching it.
C10_VaultAndCallers ==
    Emitted =>
        /\ (IsVault /\ function = 1) =>
               /\ contracts[ci].name = "Vault"
               /\ row_data = <<"withdraw", "['balance']", "['msg.sender == owner']">>
        /\ (IsVault /\ function = 3) =>
               /\ contracts[ci].name = "Vault"
               /\ row_data = <<"donate", "['balance']", "[]">>
        /\ GuardTexts(Reach(function)) \subseteq ToSet(msg_sender_condition)
        /\ row_data[3] = str_list(sorted(msg_sender_condition))

\* C10 witness: Vault, with the rows of withdraw and of donate both emitted.
C10_Witness ==
    /\ Emitted
    /\ IsVault
    /\ function = 3
    /\ \E i \in 1 .. Len(functions_data) :
           functions_data[i] = <<"withdraw", "['balance']", "['msg.sender == owner']">>
    /\ row_data = <<"donate", "['balance']", "[]">>

====
